---- MODULE Spec2Model ----
(***************************************************************************)
(* A model of src/video.c: extract_video_image samples up to MAX_FRAMES    *)
(* decoded frames of one stream, select_best_frame picks the frame whose   *)
(* RGB histogram is closest to the "average" histogram, and encode_frame   *)
(* converts it to RGBA.                                                    *)
(*                                                                         *)
(* The demuxer, the decoder and the scaler are libraries: what they return *)
(* is an input, drawn here from small sets.  The doubles of the selection  *)
(* are modelled as exact rationals: an average is kept as its numerators   *)
(* over one common denominator, and squared errors are compared scaled by  *)
(* the square of that denominator.                                         *)
(***************************************************************************)
EXTENDS Integers, Sequences, FiniteSets, TLC

(* ------------------------------ bounds -------------------------------- *)

\* Capacity of the frame array.  The source sets 100 (src/video.c:16); the
\* model is parametric in it and is checked for a small capacity.
MAX_FRAMES == 4

\* Largest width, height and row padding of the frames whose histogram is
\* checked pixel by pixel.
MaxW == 2
MaxH == 2
MaxPad == 1

(* ------------------------- program constants -------------------------- *)

\* Values of one channel byte (uint8_t): the 256 of HIST_SIZE.
CHANNEL_BINS == 256
CHANNELS == 3
HIST_SIZE == CHANNELS * CHANNEL_BINS

\* libav's error codes, as the source names them.
AVERROR_EOF == -541478725
AVERROR_EAGAIN == -11
AVERROR_ENOMEM == -12
\* The literal -1: the generic read failure of `case -1:`, and the value the
\* function returns when there is no frame to select.
GENERIC_FAILURE == -1
\* Two samples of "any other error".
AVERROR_EIO == -5
AVERROR_INVALIDDATA == -1094995529

Bins == 0 .. (HIST_SIZE - 1)
Slots == 0 .. (MAX_FRAMES - 1)

(* ------------------------------ frames -------------------------------- *)

\* A null AVFrame pointer.
NullFrame ==
  [isNull |-> TRUE, width |-> 0, height |-> 0, linesize |-> 0, data |-> <<>>]

\* What av_frame_alloc returns, and what a frame is after the decoder
\* unreferenced it and produced nothing: no dimensions, no pixel buffer.
UnfilledFrame ==
  [isNull |-> FALSE, width |-> 0, height |-> 0, linesize |-> 0, data |-> <<>>]

\* The value of every padding byte of the model's frames: one that no
\* pixel of the model has.
PaddingByte == <<9>>[1]

\* A decoded frame of w x h pixels in packed 3-byte layout with `pad`
\* padding bytes after the pixels of each row; colourOf[<<row, col>>] is
\* the pixel's colour.
Picture(w, h, pad, colourOf) ==
  [isNull |-> FALSE, width |-> w, height |-> h, linesize |-> 3 * w + pad,
   data |-> [n \in 1 .. (h * (3 * w + pad)) |->
               LET row == (n - 1) \div (3 * w + pad)
                   x == (n - 1) % (3 * w + pad)
               IN IF x < 3 * w THEN colourOf[<<row, x \div 3>>][(x % 3) + 1]
                  ELSE PaddingByte]]

\* The frames the decoder of the sampling model delivers: one pixel, solid.
Solid(v) == Picture(1, 1, 0, [p \in {<<0, 0>>} |-> <<v, v, v>>])

DecodedPictures == {Solid(0), Solid(200)}

\* The frames of the histogram model: every size up to MaxW x MaxH, every
\* padding up to MaxPad, every assignment of the palette to the pixels.
Palette == {<<0, 1, 255>>, <<255, 255, 0>>}

TestPictures ==
  UNION {UNION {UNION {{Picture(w, h, pad, c) :
                          c \in [(0 .. (h - 1)) \X (0 .. (w - 1)) -> Palette]} :
                       pad \in 0 .. MaxPad} :
                h \in 0 .. MaxH} :
         w \in 0 .. MaxW}

(* ------------------------- select_best_frame -------------------------- *)

ZeroHist == [b \in Bins |-> 0]

\* Offset in data[0] of channel k of the pixel in row j, column i:
\* p starts at data[0], advances by linesize[0] per row, and p[i * 3 + k]
\* is read.
ByteOffsetNoStride(f, j, i, k) == j * (3 * f.width) + i * 3 + k

ByteOffset(f, j, i, k) == j * f.linesize + i * 3 + k

\* The three nested loops over rows, columns and channels, step n of
\* height * width * 3.
RECURSIVE HistLoop(_, _, _)
HistLoop(h, f, n) ==
  IF n >= f.height * f.width * 3 THEN h
  ELSE LET j == n \div (3 * f.width)
           i == (n % (3 * f.width)) \div 3
           k == n % 3
           v == f.data[ByteOffset(f, j, i, k) + 1]
       IN HistLoop([h EXCEPT ![k * CHANNEL_BINS + v] = @ + 1], f, n + 1)

Hist(f) == HistLoop(ZeroHist, f, 0)

\* The value of frame_i after the histogram loop: the index before the
\* first null frame (the test !f->data of an array member is never true),
\* or MAX_FRAMES when no frame of the array is null: the loop then ends by
\* its own condition, without the decrement.
RECURSIVE ScanFrames(_, _)
ScanFrames(fs, i) ==
  IF i = MAX_FRAMES THEN MAX_FRAMES
  ELSE IF fs[i].isNull THEN i - 1
  ELSE ScanFrames(fs, i + 1)

\* hists after the loop: a row per frame before the first null one, the
\* other rows as initialised.
BuildHists(fs) ==
  LET last == ScanFrames(fs, 0)
  IN [i \in Slots |-> IF i <= last THEN Hist(fs[i]) ELSE ZeroHist]

\* hists[i]; hists[MAX_FRAMES] is past the end of the array, and reads
\* whatever `garbage` the stack holds there.
HistRow(hs, garbage, i) == IF i \in Slots THEN hs[i] ELSE garbage

\* The inner loop of the averaging: average[j] = hists[i][j] for
\* i = 0 .. frame_i, an assignment each time.
RECURSIVE AverageInner(_, _, _, _, _, _)
AverageInner(acc, hs, garbage, j, i, last) ==
  IF i > last THEN acc
  ELSE AverageInner(HistRow(hs, garbage, i)[j], hs, garbage, j, i + 1, last)

\* average[] after the averaging loops, as numerators over the denominator
\* frame_i + 1: the outer loop runs j over 0 .. frame_i, the other bins
\* keep their initial 0.
Average(hs, garbage, last) ==
  [num |-> [j \in Bins |->
              IF j <= last THEN AverageInner(0, hs, garbage, j, 0, last) ELSE 0],
   den |-> last + 1]

\* Sum of f[lo .. hi].
RECURSIVE SumFn(_, _, _)
SumFn(f, lo, hi) ==
  IF lo > hi THEN 0
  ELSE IF lo = hi THEN f[lo]
  ELSE LET mid == (lo + hi) \div 2
       IN SumFn(f, lo, mid) + SumFn(f, mid + 1, hi)

\* compute_error, times the square of the average's denominator.
compute_error(hist, median) ==
  SumFn([i \in Bins |->
           (median.num[i] - median.den * hist[i])
             * (median.num[i] - median.den * hist[i])],
        0, HIST_SIZE - 1)

\* The loop that finds the frame closest to the average; acc is
\* <<best_i, min_sq_err>>.
RECURSIVE BestLoop(_, _, _, _, _, _)
BestLoop(hs, garbage, avg, i, last, acc) ==
  IF i > last THEN acc[1]
  ELSE LET sq_err == compute_error(HistRow(hs, garbage, i), avg)
       IN IF i = 0 \/ sq_err < acc[2]
          THEN BestLoop(hs, garbage, avg, i + 1, last, <<i, sq_err>>)
          ELSE BestLoop(hs, garbage, avg, i + 1, last, acc)

select_best_frame(fs, garbage) ==
  LET last == ScanFrames(fs, 0)
      hs == BuildHists(fs)
  IN IF last = -1 THEN -1
     ELSE BestLoop(hs, garbage, Average(hs, garbage, last), 0, last, <<0, -1>>)

\* What the stack may hold past the end of hists.
GarbageRows == {[b \in Bins |-> g] : g \in {0, 7}}

(* ------------------------- extract_video_image ------------------------ *)

VARIABLES
  pc,          \* where extract_video_image is: "read" (top of the loop),
               \* "end" (the label), "select", "encode", "release", "done",
               \* or "crashed"
  err,         \* int err
  frame_i,     \* int frame_i: the number of frames received
  frames,      \* AVFrame* frames[MAX_FRAMES]
  best,        \* const int best, once select_best_frame has returned
  hists,       \* the hists array select_best_frame built
  img,         \* struct Buffer* img, and whether the pixels in it are whole
  exitBy,      \* the library call whose result ended the loop, and the result
  selected,    \* select_best_frame was called
  encoded,     \* encode_frame was called
  allocCount,  \* per slot, the av_frame_alloc calls that returned a frame
  freeCount,   \* per slot, the av_frame_free calls on a frame
  session      \* the demux/decode session: "finite" (it may end or fail at
               \* any call) or "endless" (it never ends and never fails)

vars ==
  <<pc, err, frame_i, frames, best, hists, img, exitBy, selected, encoded,
    allocCount, freeCount, session>>

\* What av_read_frame, avcodec_send_packet and avcodec_receive_frame may
\* return.
ReadFailures == {AVERROR_EOF, GENERIC_FAILURE, AVERROR_EIO}
SendFailures == {AVERROR_EAGAIN, AVERROR_EOF, AVERROR_INVALIDDATA}
ReceiveFailures == {AVERROR_EOF, AVERROR_INVALIDDATA}

NoImage ==
  [written |-> FALSE, width |-> 0, height |-> 0, size |-> 0, complete |-> FALSE]

StartOfCall ==
  /\ pc = "read"
  /\ err = 0
  /\ frame_i = 0
  /\ frames = [i \in Slots |-> NullFrame]
  /\ best = 0
  /\ hists = [i \in Slots |-> ZeroHist]
  /\ img = NoImage
  /\ exitBy = [call |-> "none", code |-> 0]
  /\ selected = FALSE
  /\ encoded = FALSE
  /\ allocCount = [i \in Slots |-> 0]
  /\ freeCount = [i \in Slots |-> 0]

Init == StartOfCall /\ session \in {"finite", "endless"}

\* `if (frame_i && frames[0]->data)`: data is an array member of AVFrame,
\* so the second operand is true of every frame.
SilenceNever(n) == FALSE

SilenceReadFailure(n) == n # 0

\* av_read_frame fails: -1 is silenced when frames were read; goto end.
ReadFail ==
  /\ pc = "read"
  /\ session = "finite"
  /\ \E r \in ReadFailures :
       /\ err' = IF r = GENERIC_FAILURE /\ SilenceReadFailure(frame_i) THEN 0 ELSE r
       /\ exitBy' = [call |-> "av_read_frame", code |-> r]
  /\ pc' = "end"
  /\ UNCHANGED <<frame_i, frames, best, hists, img, selected, encoded,
                 allocCount, freeCount, session>>

\* av_read_frame returns a packet of another stream: it is unreferenced and
\* the loop goes on.
ReadOtherStream ==
  /\ pc = "read"
  /\ err' = 0
  /\ UNCHANGED <<pc, frame_i, frames, best, hists, img, exitBy, selected,
                 encoded, allocCount, freeCount, session>>

\* A packet of the stream, and avcodec_send_packet fails: goto end.
SendFail ==
  /\ pc = "read"
  /\ session = "finite"
  /\ \E e \in SendFailures :
       /\ err' = e
       /\ exitBy' = [call |-> "avcodec_send_packet", code |-> e]
  /\ pc' = "end"
  /\ UNCHANGED <<frame_i, frames, best, hists, img, selected, encoded,
                 allocCount, freeCount, session>>

\* A packet of the stream is sent, frames[frame_i] is null and
\* av_frame_alloc returns null: goto end with ENOMEM.
AllocFail ==
  /\ pc = "read"
  /\ session = "finite"
  /\ frames[frame_i].isNull
  /\ err' = AVERROR_ENOMEM
  /\ exitBy' = [call |-> "av_frame_alloc", code |-> AVERROR_ENOMEM]
  /\ pc' = "end"
  /\ UNCHANGED <<frame_i, frames, best, hists, img, selected, encoded,
                 allocCount, freeCount, session>>

\* allocCount after `if (!frames[frame_i]) frames[frame_i] = av_frame_alloc()`
\* succeeded or was skipped.
AllocIfNull ==
  IF frames[frame_i].isNull
  THEN [allocCount EXCEPT ![frame_i] = @ + 1]
  ELSE allocCount

\* `if (++frame_i == MAX_FRAMES) goto end`, n being the incremented frame_i.
CapReachedEarly(n) == n = MAX_FRAMES - 1

CapReached(n) == n = MAX_FRAMES

\* A packet of the stream is sent and avcodec_receive_frame returns 0: the
\* slot holds a decoded frame, frame_i is incremented, and the loop ends
\* when the array is full.
ReceiveFrame ==
  /\ pc = "read"
  /\ \E p \in DecodedPictures : frames' = [frames EXCEPT ![frame_i] = p]
  /\ allocCount' = AllocIfNull
  /\ frame_i' = frame_i + 1
  /\ err' = 0
  /\ IF CapReached(frame_i + 1)
     THEN /\ pc' = "end"
          /\ exitBy' = [call |-> "cap", code |-> 0]
     ELSE UNCHANGED <<pc, exitBy>>
  /\ UNCHANGED <<best, hists, img, selected, encoded, freeCount, session>>

\* A packet of the stream is sent and avcodec_receive_frame returns
\* AVERROR(EAGAIN): the slot stays allocated and unfilled, the loop goes on.
ReceiveAgain ==
  /\ pc = "read"
  /\ frames' = [frames EXCEPT ![frame_i] = UnfilledFrame]
  /\ allocCount' = AllocIfNull
  /\ err' = AVERROR_EAGAIN
  /\ UNCHANGED <<pc, frame_i, best, hists, img, exitBy, selected, encoded,
                 freeCount, session>>

\* A packet of the stream is sent and avcodec_receive_frame fails otherwise:
\* goto end.
ReceiveFail ==
  /\ pc = "read"
  /\ session = "finite"
  /\ frames' = [frames EXCEPT ![frame_i] = UnfilledFrame]
  /\ allocCount' = AllocIfNull
  /\ \E e \in ReceiveFailures :
       /\ err' = e
       /\ exitBy' = [call |-> "avcodec_receive_frame", code |-> e]
  /\ pc' = "end"
  /\ UNCHANGED <<frame_i, best, hists, img, selected, encoded, freeCount,
                 session>>

\* `if (frame_i < 1)`.
NoFramesNever(n) == n < 0

NoFrames(n) == n < 1

\* The label end: `switch (err)`; AVERROR_EOF falls through to case 0, any
\* other value leaves the switch at once.
EndSwitch ==
  /\ pc = "end"
  /\ IF err \in {AVERROR_EOF, 0}
     THEN IF NoFrames(frame_i)
          THEN err' = GENERIC_FAILURE /\ pc' = "release"
          ELSE err' = 0 /\ pc' = "select"
     ELSE err' = err /\ pc' = "release"
  /\ UNCHANGED <<frame_i, frames, best, hists, img, exitBy, selected, encoded,
                 allocCount, freeCount, session>>

\* `best = select_best_frame(frames)`, and `if (best == -1) err = -1`.
SelectBestFrame ==
  /\ pc = "select"
  /\ \E garbage \in GarbageRows : best' = select_best_frame(frames, garbage)
  /\ hists' = BuildHists(frames)
  /\ selected' = TRUE
  /\ IF best' = -1
     THEN err' = GENERIC_FAILURE /\ pc' = "release"
     ELSE err' = err /\ pc' = "encode"
  /\ UNCHANGED <<frame_i, frames, img, exitBy, encoded, allocCount, freeCount,
                 session>>

\* `err = encode_frame(img, frames[best])` for a frame of the array:
\* sws_getContext may return null, and then img is left alone; otherwise
\* img is filled in, sws_scale runs and its result is dropped.
EncodeFrame ==
  /\ pc = "encode"
  /\ best \in Slots
  /\ \E ctx \in BOOLEAN, scaled \in BOOLEAN :
       IF ctx
       THEN /\ img' = [written |-> TRUE,
                       width |-> frames[best].width,
                       height |-> frames[best].height,
                       size |-> frames[best].width * frames[best].height * 4,
                       complete |-> scaled]
            /\ err' = 0
       ELSE /\ img' = img
            /\ err' = AVERROR_ENOMEM
  /\ encoded' = TRUE
  /\ pc' = "release"
  /\ UNCHANGED <<frame_i, frames, best, hists, exitBy, selected, allocCount,
                 freeCount, session>>

\* `encode_frame(img, frames[best])` with best = MAX_FRAMES: frames[best] is
\* read past the end of the array, and encode_frame dereferences whatever
\* pointer it finds: the process crashes, or sws_getContext is handed
\* garbage and encode_frame returns as it would for some frame.
EncodeWildFrame ==
  /\ pc = "encode"
  /\ best \notin Slots
  /\ \E outcome \in {"crash", "no context", "converted"} :
       IF outcome = "crash"
       THEN pc' = "crashed" /\ img' = img /\ err' = err
       ELSE /\ pc' = "release"
            /\ IF outcome = "converted"
               THEN /\ img' = [written |-> TRUE, width |-> 0, height |-> 0,
                               size |-> 0, complete |-> FALSE]
                    /\ err' = 0
               ELSE /\ img' = img
                    /\ err' = AVERROR_ENOMEM
  /\ encoded' = TRUE
  /\ UNCHANGED <<frame_i, frames, best, hists, exitBy, selected, allocCount,
                 freeCount, session>>

\* `if (frames[i]->data)` of the release loop: data is an array member, the
\* test is true of every frame.
ReleaseOnlyFilled(f) == Len(f.data) > 0

ReleaseTest(f) == TRUE

\* The index at which the release loop breaks: the first null frame.
RECURSIVE FirstNull(_, _)
FirstNull(fs, i) ==
  IF i = MAX_FRAMES THEN MAX_FRAMES
  ELSE IF fs[i].isNull THEN i
  ELSE FirstNull(fs, i + 1)

\* The release loop, and the return: av_frame_free frees the frame and
\* nulls the pointer.
ReleaseFrames ==
  /\ pc = "release"
  /\ LET stop == FirstNull(frames, 0)
         freed == {i \in Slots : i < stop /\ ReleaseTest(frames[i])}
     IN /\ frames' = [i \in Slots |-> IF i \in freed THEN NullFrame ELSE frames[i]]
        /\ freeCount' = [i \in Slots |-> IF i \in freed THEN freeCount[i] + 1
                                        ELSE freeCount[i]]
  /\ pc' = "done"
  /\ UNCHANGED <<err, frame_i, best, hists, img, exitBy, selected, encoded,
                 allocCount, session>>

Next ==
  \/ ReadFail
  \/ ReadOtherStream
  \/ SendFail
  \/ AllocFail
  \/ ReceiveFrame
  \/ ReceiveAgain
  \/ ReceiveFail
  \/ EndSwitch
  \/ SelectBestFrame
  \/ EncodeFrame
  \/ EncodeWildFrame
  \/ ReleaseFrames

Spec == Init /\ [][Next]_vars

\* An endless session delivers a decodable packet of the stream again and
\* again, and the loop, which nothing suspends, receives its frame.
EndlessDelivery == session = "endless" /\ ReceiveFrame

FairSpec == Spec /\ WF_vars(EndlessDelivery)

\* select_best_frame on its own: the call is about to select from one
\* decoded frame, of any of the test pictures, read before the stream ended.
HistInit ==
  /\ pc = "select"
  /\ err = 0
  /\ frame_i = 1
  /\ \E p \in TestPictures :
       frames = [i \in Slots |-> IF i = 0 THEN p ELSE NullFrame]
  /\ best = 0
  /\ hists = [i \in Slots |-> ZeroHist]
  /\ img = NoImage
  /\ exitBy = [call |-> "av_read_frame", code |-> AVERROR_EOF]
  /\ selected = FALSE
  /\ encoded = FALSE
  /\ allocCount = [i \in Slots |-> IF i = 0 THEN 1 ELSE 0]
  /\ freeCount = [i \in Slots |-> 0]
  /\ session = "finite"

HistSpec == HistInit /\ [][SelectBestFrame]_vars

(* ------------------------------ claims -------------------------------- *)

\* select_best_frame has just returned, and the array it was given holds
\* exactly the frame_i decoded frames: no unfilled slot, and a null slot
\* after them.
CleanSample == pc = "encode" /\ ScanFrames(frames, 0) = frame_i - 1

\* The arithmetic mean of the first k histograms, as numerators over k.
MeanNum(hs, k) ==
  [b \in Bins |-> SumFn([i \in 0 .. (k - 1) |-> hs[i][b]], 0, k - 1)]

\* k * k times the sum over all bins of (mean[b] - hs[i][b])^2.
MeanError(hs, k, i) ==
  LET m == MeanNum(hs, k)
  IN SumFn([b \in Bins |-> (m[b] - k * hs[i][b]) * (m[b] - k * hs[i][b])],
           0, HIST_SIZE - 1)

\* The lowest index whose histogram is closest to the mean.
ClosestToMean(hs, k) ==
  CHOOSE i \in 0 .. (k - 1) :
    /\ \A j \in 0 .. (k - 1) : MeanError(hs, k, i) <= MeanError(hs, k, j)
    /\ \A j \in 0 .. (i - 1) : MeanError(hs, k, i) < MeanError(hs, k, j)

\* C1: for a sample set of k >= 1 decoded frames, select_best_frame returns
\* the lowest index whose histogram has the least sum of squared deviations
\* from the bin-wise arithmetic mean of the k histograms.
C1_SelectsClosestToMean ==
  CleanSample => best = ClosestToMean(hists, frame_i)

\* C2: whenever selection is reached with k decoded frames (the stream
\* ended, the read failure was silenced or the array is full), the index
\* select_best_frame returns is one of 0 .. k-1, so that encode_frame is
\* only applied to a decoded frame.
C2_SelectedIndexIsDecoded ==
  (selected /\ exitBy.call \in {"av_read_frame", "cap"})
    => (0 <= best /\ best < frame_i)

\* C3: when sampling ends without a fatal error and no frame was decoded,
\* the call returns an error, runs neither selection nor conversion, and
\* leaves the output image unwritten.
C3_NoFramesDecoded ==
  (frame_i = 0 /\ exitBy.code = AVERROR_EOF /\ pc \notin {"read", "end"})
    => /\ pc \in {"release", "done"}
       /\ err = GENERIC_FAILURE
       /\ ~selected
       /\ ~encoded
       /\ ~img.written

C3_Witness ==
  /\ pc = "done"
  /\ frame_i = 0
  /\ exitBy = [call |-> "av_read_frame", code |-> AVERROR_EOF]
  /\ err = GENERIC_FAILURE

\* The failures the claim C4 calls fatal.
FatalExit ==
  \/ exitBy.call = "av_read_frame"
       /\ exitBy.code \notin {AVERROR_EOF, GENERIC_FAILURE}
  \/ exitBy.call \in {"avcodec_send_packet", "avcodec_receive_frame"}
       /\ exitBy.code # AVERROR_EAGAIN

\* C4: after a read error other than end-of-stream and the generic read
\* failure, or a decoder error other than need-more-input, no further packet
\* is read, neither selection nor conversion runs, and that error is
\* returned.
C4_FatalErrorAborts ==
  FatalExit => /\ pc # "read"
               /\ ~selected
               /\ ~encoded
               /\ pc = "done" => err = exitBy.code

\* C5: after the generic read failure, the call goes on to selection when a
\* frame was collected (the failure is taken for the end of the stream), and
\* otherwise fails with that error, without selection or conversion.
C5_GenericReadFailure ==
  exitBy = [call |-> "av_read_frame", code |-> GENERIC_FAILURE]
    => IF frame_i >= 1
       THEN \/ pc = "end" /\ err = 0
            \/ pc = "select"
            \/ selected
       ELSE /\ pc \in {"end", "release", "done"}
            /\ err = GENERIC_FAILURE
            /\ ~selected
            /\ ~encoded

C5_Witness ==
  /\ exitBy = [call |-> "av_read_frame", code |-> GENERIC_FAILURE]
  /\ frame_i >= 1
  /\ selected
  /\ pc = "done"

\* C6: the number of collected frames never exceeds MAX_FRAMES, no packet
\* is read once it is MAX_FRAMES, and on an endless session the loop ends
\* with exactly MAX_FRAMES frames.
C6_CapAndTermination ==
  /\ [](frame_i <= MAX_FRAMES /\ (frame_i = MAX_FRAMES => pc # "read"))
  /\ (session = "endless") ~> (pc # "read" /\ frame_i = MAX_FRAMES)

C6_Witness ==
  session = "endless" /\ pc = "end" /\ frame_i = MAX_FRAMES

\* C7: the call returns success only when a complete output image was
\* produced (checked where the selected frame is a decoded one).
C7_SuccessMeansImage ==
  (pc = "done" /\ err = 0 /\ best < frame_i)
    => (img.written /\ img.complete)

\* C8: a frame is never freed twice nor allocated twice in a slot, and when
\* the call returns every frame allocated in it, an unfilled one included,
\* has been freed once and no pointer to it is left.
C8_ReleasedExactlyOnce ==
  /\ \A i \in Slots : freeCount[i] <= allocCount[i] /\ allocCount[i] <= 1
  /\ pc = "done" =>
       \A i \in Slots : freeCount[i] = allocCount[i] /\ frames[i].isNull

C8_Witness ==
  /\ pc = "done"
  /\ frame_i \in 1 .. (MAX_FRAMES - 1)
  /\ allocCount[frame_i] = 1
  /\ freeCount[frame_i] = 1

\* C9: the average histogram select_best_frame uses is, in every bin, the
\* sum of the bin over the k collected frames divided by k.
C9_AverageIsMean ==
  CleanSample =>
    LET avg == Average(hists, ZeroHist, frame_i - 1)
        mean == MeanNum(hists, frame_i)
    IN \A b \in Bins : avg.num[b] * frame_i = mean[b] * avg.den

\* The pixels of frame f whose channel c has the value v.
PixelsWith(f, c, v) ==
  {px \in (0 .. (f.height - 1)) \X (0 .. (f.width - 1)) :
     f.data[px[1] * f.linesize + px[2] * 3 + c + 1] = v}

\* C10: the histogram of a decoded frame of W x H pixels counts, in bin
\* c * 256 + v, the pixels whose channel c is v; each of the three
\* sub-histograms sums to W * H and the whole to 3 * W * H, whatever the
\* padding of the rows.
C10_HistogramCountsPixels ==
  selected =>
    LET f == frames[0]
        h == hists[0]
    IN /\ \A c \in 0 .. (CHANNELS - 1) :
            /\ SumFn(h, c * CHANNEL_BINS, (c + 1) * CHANNEL_BINS - 1)
                 = f.width * f.height
            /\ \A v \in 0 .. (CHANNEL_BINS - 1) :
                 h[c * CHANNEL_BINS + v] = Cardinality(PixelsWith(f, c, v))
       /\ SumFn(h, 0, HIST_SIZE - 1) = 3 * f.width * f.height

C10_Witness ==
  /\ selected
  /\ frames[0].width = MaxW
  /\ frames[0].height = MaxH
  /\ frames[0].linesize > 3 * frames[0].width

====
